---------------------------- MODULE Spec2Model ----------------------------
(***************************************************************************)
(* Model of the Discord server (guild) resource of the Terraform provider, *)
(* discord/resource_discord_server.go: the schema validators and the CRUD  *)
(* handlers resourceServerCreate, resourceServerManagedCreate,             *)
(* resourceServerRead, resourceServerUpdate, resourceServerDelete and      *)
(* resourceServerManagedDelete, run against a remote guild that stores     *)
(* what the API calls write and in which any API call may fail.            *)
(***************************************************************************)
EXTENDS Integers, Sequences, FiniteSets, TLC

VARIABLES
    state,       \* schema.ResourceData: the resource's stored attributes (id = "" : no resource)
    kind,        \* the resource instance: "none" (not yet created), "server",
                 \* "managed", "failed" (its create failed), "gone" (deleted)
    guild,       \* the remote guild as the Discord API holds it
    channels,    \* the channel ids of the remote guild
    config,      \* the configuration given to the last create / update
    handler,     \* the handler that ran last
    diags,       \* the diagnostics it returned: <<>> or one error diagnostic
    calls,       \* the API calls it issued, in order, each with its outcome
    prior,       \* the state just before it ran
    priorGuild,  \* the remote guild just before it ran
    dret,        \* the ResourceData d as the handler left it at its return
    fresh,       \* TRUE from a successful create until the guild is next written
    drifts,      \* the number of out-of-band changes to the guild since its creation
    updates,     \* the number of updates run on the guild since its creation
    validation   \* the last ValidateFunc call: [key, val, errors]

vars == <<state, kind, guild, channels, config, handler, diags, calls, prior,
          priorGuild, dret, fresh, drifts, updates, validation>>

crudVars == <<state, kind, guild, channels, config, handler, diags, calls, prior,
              priorGuild, dret, fresh, drifts, updates>>

---------------------------------------------------------------------------
(* Bounds of the model. *)

\* The configuration of a create sets at most this many attributes to a
\* non-default value.
MaxDiff == 2

\* The configuration of an update sets at most this many attributes to a
\* non-default value.
MaxUpdateDiff == 1

\* The remote creates at most this many default channels with a new guild.
MaxChannels == 2

\* At most this many out-of-band changes happen to a guild after its creation.
MaxDrift == 1

\* At most this many updates are applied to a guild after its creation.
MaxUpdates == 1

\* The validators are probed on the integers -MaxProbe .. MaxProbe.
MaxProbe == 3700

---------------------------------------------------------------------------
(* Schema: baseServerSchema. *)

DefaultVerificationLevel == 0
DefaultExplicitContentFilter == 0
DefaultMessageNotifications == 0
DefaultAfkTimeout == 300

\* contains(expected, v): membership in a slice.
Contains(s, v) == \E i \in 1..Len(s) : s[i] = v

AfkTimeoutExpectedNo300 == <<60, 900, 1800, 3600>>

AfkTimeoutExpected == <<60, 300, 900, 1800, 3600>>

\* Each ValidateFunc returns its errors slice: empty, or one error.
ValidateVerificationLevelNoLower(v) ==
    IF v > 4 THEN <<"verification_level must be between 0 and 4 inclusive">> ELSE <<>>

ValidateVerificationLevel(v) ==
    IF v > 4 \/ v < 0
        THEN <<"verification_level must be between 0 and 4 inclusive">>
        ELSE <<>>

ValidateExplicitContentFilter(v) ==
    IF v > 2 \/ v < 0
        THEN <<"explicit_content_filter must be between 0 and 2 inclusive">>
        ELSE <<>>

ValidateDefaultMessageNotifications(v) ==
    IF v # 0 /\ v # 1
        THEN <<"default_message_notifications must be 0 or 1">>
        ELSE <<>>

ValidateAfkTimeout(v) ==
    IF ~Contains(AfkTimeoutExpected, v)
        THEN <<"afk_timeout must be set to one of the following values">>
        ELSE <<>>

ProbeInts == (0 - MaxProbe)..MaxProbe

NoValidation == [key |-> "", val |-> 0, errors |-> <<>>]

---------------------------------------------------------------------------
(* Snowflakes, images. *)

\* The bot user that owns every guild it creates, and the id of the guild.
BotUser == 1
GuildID == 9

\* The id of a guild that exists without the provider having created it.
ForeignID == 7

\* disgord.ParseSnowflakeString / getId on the decimal strings used here;
\* the empty string parses to the zero snowflake.
ParseSnowflakeString(s) ==
    CASE s = "" -> 0
      [] s = "1" -> 1
      [] s = "2" -> 2
      [] s = "7" -> 7
      [] s = "9" -> 9
      [] OTHER -> 0

getId(s) == ParseSnowflakeString(s)

\* Snowflake.String()
SnowflakeString(n) ==
    CASE n = 0 -> "0"
      [] n = 1 -> "1"
      [] n = 2 -> "2"
      [] n = 7 -> "7"
      [] n = 9 -> "9"
      [] OTHER -> "?"

IsZero(n) == n = 0

\* imgbase64.FromRemote: the data URI of the image behind a URL.
FromRemote(url) ==
    CASE url = "" -> ""
      [] url = "http://icon" -> "data:icon-remote"
      [] url = "http://splash" -> "data:splash-remote"
      [] OTHER -> "data:unknown"

\* The hash under which the remote stores an uploaded image ("" : no image).
ImageHash(data) ==
    CASE data = "" -> ""
      [] data = "data:icon-remote" -> "hash-icon-remote"
      [] data = "data:splash-remote" -> "hash-splash-remote"
      [] data = "data:icon" -> "hash-icon"
      [] data = "data:splash" -> "hash-splash"
      [] OTHER -> "hash-unknown"

---------------------------------------------------------------------------
(* Configurations and the stored state. *)

ConfigAttrs ==
    {"name", "region", "verification_level", "explicit_content_filter",
     "default_message_notifications", "afk_channel_id", "afk_timeout",
     "icon_url", "icon_data_uri", "splash_url", "splash_data_uri",
     "owner_id", "server_id"}

ComputedAttrs == {"id", "icon_hash", "splash_hash"}

StateAttrs == ConfigAttrs \cup ComputedAttrs

\* A configuration that sets only the required name; the rest take the
\* schema defaults (Default: for the integers, the zero value otherwise).
BaseConfig ==
    [name |-> "a", region |-> "",
     verification_level |-> DefaultVerificationLevel,
     explicit_content_filter |-> DefaultExplicitContentFilter,
     default_message_notifications |-> DefaultMessageNotifications,
     afk_channel_id |-> "", afk_timeout |-> DefaultAfkTimeout,
     icon_url |-> "", icon_data_uri |-> "",
     splash_url |-> "", splash_data_uri |-> "",
     owner_id |-> "", server_id |-> ""]

\* The non-default settings a configuration is built from.
Alts == 1..16

AltAttr(i) ==
    CASE i = 1 -> "name"
      [] i = 2 -> "region"
      [] i = 3 -> "verification_level"
      [] i = 4 -> "explicit_content_filter"
      [] i = 5 -> "default_message_notifications"
      [] i = 6 -> "afk_channel_id"
      [] i = 7 -> "afk_timeout"
      [] i = 8 -> "icon_url"
      [] i = 9 -> "icon_data_uri"
      [] i = 10 -> "splash_url"
      [] i = 11 -> "splash_data_uri"
      [] i = 12 -> "owner_id"
      [] i = 13 -> "owner_id"
      [] i = 14 -> "server_id"
      [] i = 15 -> "afk_timeout"
      [] i = 16 -> "verification_level"

AltVal(i) ==
    CASE i = 1 -> "b"
      [] i = 2 -> "eu"
      [] i = 3 -> 4
      [] i = 4 -> 2
      [] i = 5 -> 1
      [] i = 6 -> "7"
      [] i = 7 -> 60
      [] i = 8 -> "http://icon"
      [] i = 9 -> "data:icon"
      [] i = 10 -> "http://splash"
      [] i = 11 -> "data:splash"
      [] i = 12 -> "1"
      [] i = 13 -> "2"
      [] i = 14 -> "7"
      [] i = 15 -> 120
      [] i = 16 -> 5

ConfigOf(S) ==
    [k \in ConfigAttrs |->
        IF \E i \in S : AltAttr(i) = k
            THEN AltVal(CHOOSE i \in S : AltAttr(i) = k)
            ELSE BaseConfig[k]]

ConfigsUpTo(n) ==
    {ConfigOf(S) : S \in {T \in SUBSET Alts :
        /\ Cardinality(T) <= n
        /\ \A i, j \in T : AltAttr(i) = AltAttr(j) => i = j}}

Configs == ConfigsUpTo(MaxDiff)

\* The SDK runs every ValidateFunc on the configuration before any handler.
SchemaValid(c) ==
    /\ ValidateVerificationLevel(c.verification_level) = <<>>
    /\ ValidateExplicitContentFilter(c.explicit_content_filter) = <<>>
    /\ ValidateDefaultMessageNotifications(c.default_message_notifications) = <<>>
    /\ ValidateAfkTimeout(c.afk_timeout) = <<>>

ValidConfigs == {c \in Configs : SchemaValid(c)}

\* serverSchema: server_id is Computed, name is Required.
ServerConfigs == {c \in ValidConfigs : c.server_id = ""}

\* managedServerSchema: server_id is Required (it may still be the empty string).
ManagedConfigs == ValidConfigs

\* The configurations an update is given.  (For the managed resource the
\* server_id, which the update keeps, is not counted.)
UpdateConfigs ==
    {c \in ValidConfigs :
        [c EXCEPT !.server_id = ""] \in ConfigsUpTo(MaxUpdateDiff)}

EmptyState ==
    [name |-> "", region |-> "", verification_level |-> 0,
     explicit_content_filter |-> 0, default_message_notifications |-> 0,
     afk_channel_id |-> "", afk_timeout |-> 0,
     icon_url |-> "", icon_data_uri |-> "",
     splash_url |-> "", splash_data_uri |-> "",
     owner_id |-> "", server_id |-> "",
     id |-> "", icon_hash |-> "", splash_hash |-> ""]

\* The ResourceData a create or update handler is given: the configured
\* attributes from the configuration, the computed ones from the prior state.
Planned(cfg, st) ==
    [k \in StateAttrs |-> IF k \in ConfigAttrs THEN cfg[k] ELSE st[k]]

\* d.GetOk: the value is set when it is not the zero value of its type.
GetOkStr(v) == v # ""
GetOkInt(v) == v # 0

\* d.HasChange(k): the prior state and the planned value differ.
HasChange(old, d, k) == old[k] # d[k]

---------------------------------------------------------------------------
(* The remote guild. *)

NoGuild ==
    [exists |-> FALSE, id |-> 0, name |-> "", region |-> "",
     verification_level |-> 0, explicit_content_filter |-> 0,
     default_message_notifications |-> 0, afk_channel_id |-> 0,
     afk_timeout |-> 0, icon |-> "", splash |-> "", owner_id |-> 0]

\* A guild somebody else created, for the managed resource to adopt.
ForeignGuild ==
    [exists |-> TRUE, id |-> ForeignID, name |-> "g", region |-> "us",
     verification_level |-> 1, explicit_content_filter |-> 1,
     default_message_notifications |-> 0, afk_channel_id |-> 2,
     afk_timeout |-> 900, icon |-> "hash-icon", splash |-> "", owner_id |-> 2]

\* client.Guild(id) reaches a guild only when it exists under that id.
Reachable(g, id) == g.exists /\ g.id = id

\* The remote applies a PATCH: every field the request sets is stored, an
\* image under its hash; every other field keeps its value.
ApplyPatch(g, p) ==
    [k \in DOMAIN g |->
        IF k \in DOMAIN p
            THEN IF k \in {"icon", "splash"} THEN ImageHash(p[k]) ELSE p[k]
            ELSE g[k]]

---------------------------------------------------------------------------
(* API calls.  A call is a record [op, ok, err, args]: the endpoint,       *)
(* whether it succeeded, the error it returned ("" : none) and what the    *)
(* request carried (for the channel fetch: the channels it returned).      *)

\* The error the client returns when a call to an endpoint fails.
ApiError(op) ==
    CASE op = "CreateGuild" -> "400 Bad Request"
      [] op = "GetChannels" -> "404 Not Found"
      [] op = "DeleteChannel" -> "403 Forbidden"
      [] op = "UpdateGuild" -> "429 Too Many Requests"
      [] op = "GetGuild" -> "404 Unknown Guild"
      [] op = "DeleteGuild" -> "403 Missing Permissions"

NoArgs == [x \in {} |-> 0]

Call(op, args) == [op |-> op, ok |-> TRUE, err |-> "", args |-> args]

Failed(c) == [c EXCEPT !.ok = FALSE, !.err = ApiError(c.op)]

\* Issued, but a failed call is tried a second time before the return.
IssuedRetry(plan, n) ==
    IF n = 0
        THEN plan
        ELSE [i \in 1..(n + 1) |-> IF i >= n THEN Failed(plan[n]) ELSE plan[i]]

\* The first n calls of a plan, the n-th one failing (n = 0: the whole plan,
\* every call succeeding).  A handler returns at the first failing call.
Issued(plan, n) ==
    IF n = 0
        THEN plan
        ELSE [i \in 1..n |-> IF i = n THEN Failed(plan[i]) ELSE plan[i]]

\* The guild the remote makes of a CreateGuild request, and returns: owned
\* by the bot, no AFK channel, Discord's default AFK timeout (300 s, the
\* same number as the schema default), no splash.
NewGuild(params) ==
    [exists |-> TRUE, id |-> GuildID, name |-> params.name,
     region |-> params.region,
     verification_level |-> params.verification_level,
     explicit_content_filter |-> params.explicit_content_filter,
     default_message_notifications |-> params.default_message_notifications,
     afk_channel_id |-> 0, afk_timeout |-> DefaultAfkTimeout,
     icon |-> ImageHash(params.icon), splash |-> "", owner_id |-> BotUser]

\* The effect of one call on the remote r = [guild, channels]; nch is the
\* number of default channels the remote gives a new guild.
ApplyCall(c, r, nch) ==
    CASE ~c.ok -> r
      [] c.op = "CreateGuild" ->
            [guild |-> NewGuild(c.args), channels |-> 1..nch]
      [] c.op = "DeleteChannel" ->
            [r EXCEPT !.channels = @ \ {c.args.channel}]
      [] c.op = "UpdateGuild" ->
            [r EXCEPT !.guild = ApplyPatch(@, c.args)]
      [] c.op = "DeleteGuild" ->
            [guild |-> NoGuild, channels |-> {}]
      [] OTHER -> r

RECURSIVE ApplyCalls(_, _, _)
ApplyCalls(cs, r, nch) ==
    IF cs = <<>>
        THEN r
        ELSE ApplyCalls(Tail(cs), ApplyCall(Head(cs), r, nch), nch)

\* diag.Errorf(summary + ": %s", err.Error()): one error diagnostic that
\* carries the failed call's error.
Errorf(summary, c) == <<[summary |-> summary, err |-> c.err]>>

---------------------------------------------------------------------------
(* resourceServerCreate *)

\* The icon sent with CreateGuild: icon_data_uri wins over icon_url.
CreateIcon(d) ==
    LET fromUrl == IF GetOkStr(d.icon_url) THEN FromRemote(d.icon_url) ELSE ""
    IN  IF GetOkStr(d.icon_data_uri) THEN d.icon_data_uri ELSE fromUrl

CreateParams(d) ==
    [name |-> d.name, region |-> d.region, icon |-> CreateIcon(d),
     verification_level |-> d.verification_level,
     default_message_notifications |-> d.default_message_notifications,
     explicit_content_filter |-> d.explicit_content_filter]

\* The loop over the fetched channels: one delete per channel.
DeleteChannelCalls(nch) ==
    [i \in 1..nch |-> Call("DeleteChannel", [channel |-> i])]

CreateSplash(d) ==
    LET fromUrl == IF GetOkStr(d.splash_url) THEN FromRemote(d.splash_url) ELSE ""
    IN  IF GetOkStr(d.splash_data_uri) THEN d.splash_data_uri ELSE fromUrl

CreateEdit(d) ==
    \/ CreateSplash(d) # ""
    \/ GetOkStr(d.afk_channel_id)
    \/ GetOkInt(d.afk_timeout)

\* CreateEditCalls without the second request, the one for the AFK timeout.
CreateEditCallsNoTimeout(d, server) ==
    LET afkChannel == IF GetOkStr(d.afk_channel_id)
                          THEN ParseSnowflakeString(d.afk_channel_id)
                          ELSE server.afk_channel_id
    IN  IF CreateEdit(d)
            THEN << Call("UpdateGuild", [splash |-> CreateSplash(d),
                                         afk_channel_id |-> afkChannel]) >>
            ELSE <<>>

\* The two edits of the extra fields: splash and AFK channel in one request,
\* the AFK timeout in a second one.
CreateEditCalls(d, server) ==
    LET afkChannel == IF GetOkStr(d.afk_channel_id)
                          THEN ParseSnowflakeString(d.afk_channel_id)
                          ELSE server.afk_channel_id
        afkTimeOut == IF GetOkInt(d.afk_timeout) THEN d.afk_timeout ELSE server.afk_timeout
    IN  IF CreateEdit(d)
            THEN << Call("UpdateGuild", [splash |-> CreateSplash(d),
                                         afk_channel_id |-> afkChannel]),
                    Call("UpdateGuild", [afk_timeout |-> afkTimeOut]) >>
            ELSE <<>>

\* The owner is only transferred when it differs from the guild's owner.
CreateOwnerCalls(d, server) ==
    IF GetOkStr(d.owner_id) /\ server.owner_id # ParseSnowflakeString(d.owner_id)
        THEN << Call("UpdateGuild", [owner_id |-> ParseSnowflakeString(d.owner_id)]) >>
        ELSE <<>>

\* CreatePlan with the edits issued before the default channels are deleted.
CreatePlanEditFirst(d, server, nch) ==
    << Call("CreateGuild", CreateParams(d)),
       Call("GetChannels", [channels |-> 1..nch]) >>
    \o CreateEditCalls(d, server)
    \o DeleteChannelCalls(nch)
    \o CreateOwnerCalls(d, server)

\* Every call of a create that nothing interrupts, in the order of the code.
CreatePlan(d, server, nch) ==
    << Call("CreateGuild", CreateParams(d)),
       Call("GetChannels", [channels |-> 1..nch]) >>
    \o DeleteChannelCalls(nch)
    \o CreateEditCalls(d, server)
    \o CreateOwnerCalls(d, server)

CreateSummary(c) ==
    CASE c.op = "CreateGuild" -> "Failed to create server"
      [] c.op = "GetChannels" -> "Failed to fetch channels for new server"
      [] c.op = "DeleteChannel" -> "Failed to delete channel for new server"
      [] OTHER -> "Failed to edit server"

\* CreateResult with d.SetId moved up, to right after CreateGuild.
CreateResultEarlyId(d, server, ok) ==
    IF ok
        THEN [d EXCEPT !.id = SnowflakeString(server.id),
                       !.icon_hash = server.icon,
                       !.splash_hash = server.splash]
        ELSE [d EXCEPT !.id = SnowflakeString(server.id)]

\* d at the return: written only after the last call succeeded.  (The
\* d.Set("owner", ...) names no attribute of the schema and writes nothing.)
CreateResult(d, server, ok) ==
    IF ok
        THEN [d EXCEPT !.id = SnowflakeString(server.id),
                       !.icon_hash = server.icon,
                       !.splash_hash = server.splash]
        ELSE d

resourceServerCreate(cfg, nch, failAt) ==
    LET d == Planned(cfg, EmptyState)
        server == NewGuild(CreateParams(d))
        plan == CreatePlan(d, server, nch)
        issued == Issued(plan, failAt)
        ok == failAt = 0
        remote == ApplyCalls(issued, [guild |-> guild, channels |-> channels], nch)
        ret == CreateResult(d, server, ok)
    IN  /\ kind = "none"
        /\ ~Reachable(guild, ForeignID)
        /\ failAt \in 0..Len(plan)
        /\ handler' = "resourceServerCreate"
        /\ config' = cfg
        /\ prior' = state
        \* The guild this create makes did not exist before it.
        /\ priorGuild' = NoGuild
        /\ calls' = issued
        /\ diags' = IF ok THEN <<>> ELSE Errorf(CreateSummary(plan[failAt]), issued[failAt])
        /\ guild' = remote.guild
        /\ channels' = remote.channels
        /\ dret' = ret
        \* The SDK stores d when the handler succeeded or left an id behind.
        /\ state' = IF ok \/ ret.id # "" THEN ret ELSE EmptyState
        /\ kind' = IF ok \/ ret.id # "" THEN "server" ELSE "failed"
        /\ fresh' = ok
        /\ drifts' = IF issued[1].ok THEN 0 ELSE drifts
        /\ updates' = IF issued[1].ok THEN 0 ELSE updates
        /\ UNCHANGED validation

---------------------------------------------------------------------------
(* resourceServerManagedCreate *)

resourceServerManagedCreate(cfg) ==
    LET d == Planned(cfg, EmptyState)
        ok == GetOkStr(d.server_id)
        ret == IF ok THEN [d EXCEPT !.id = d.server_id] ELSE d
    IN  /\ kind = "none"
        /\ handler' = "resourceServerManagedCreate"
        /\ config' = cfg
        /\ prior' = state
        /\ priorGuild' = guild
        /\ calls' = <<>>
        /\ diags' = IF ok THEN <<>>
                          ELSE <<[summary |-> "Error: server_id must be set", err |-> ""]>>
        /\ dret' = ret
        /\ state' = IF ok THEN ret ELSE EmptyState
        /\ kind' = IF ok THEN "managed" ELSE "failed"
        /\ fresh' = FALSE
        /\ UNCHANGED <<guild, channels, drifts, updates, validation>>

---------------------------------------------------------------------------
(* resourceServerRead *)

\* d after the d.Set calls of a read that fetched `server`.
ReadResult(d, server) ==
    LET d1 == [d EXCEPT !.name = server.name,
                        !.region = server.region,
                        !.default_message_notifications = server.default_message_notifications,
                        !.afk_timeout = server.afk_timeout,
                        !.icon_hash = server.icon,
                        !.splash_hash = server.splash,
                        !.verification_level = server.verification_level,
                        !.explicit_content_filter = server.explicit_content_filter]
        d2 == IF ~IsZero(server.afk_channel_id)
                  THEN [d1 EXCEPT !.afk_channel_id = SnowflakeString(server.afk_channel_id)]
                  ELSE d1
    IN  IF d.owner_id # "" /\ ~IsZero(server.owner_id)
            THEN [d2 EXCEPT !.owner_id = SnowflakeString(server.owner_id)]
            ELSE d2

resourceServerRead(fail) ==
    LET get == Call("GetGuild", NoArgs)
        ok == ~fail /\ Reachable(guild, getId(state.id))
        ret == IF ok THEN ReadResult(state, guild) ELSE state
    IN  /\ kind \in {"server", "managed"}
        /\ handler' = "resourceServerRead"
        /\ prior' = state
        /\ priorGuild' = guild
        /\ calls' = IF ok THEN <<get>> ELSE <<Failed(get)>>
        /\ diags' = IF ok THEN <<>> ELSE Errorf("Error fetching server", Failed(get))
        /\ dret' = ret
        /\ state' = ret
        /\ UNCHANGED <<kind, guild, channels, config, fresh, drifts, updates, validation>>

---------------------------------------------------------------------------
(* resourceServerUpdate *)

\* The builder calls of an update, in the order of the code: each one is
\* [on, field, val], the setter being called when `on` holds.
UpdateSets(old, d, server) ==
    LET hasOwner == GetOkStr(d.owner_id)
    IN  << [on |-> HasChange(old, d, "icon_url"), field |-> "icon",
            val |-> FromRemote(d.icon_url)],
           [on |-> HasChange(old, d, "icon_data_uri"), field |-> "icon",
            val |-> d.icon_data_uri],
           [on |-> HasChange(old, d, "splash_url"), field |-> "icon",
            val |-> FromRemote(d.splash_url)],
           [on |-> HasChange(old, d, "splash_data_uri"), field |-> "icon",
            val |-> d.splash_data_uri],
           [on |-> HasChange(old, d, "afk_channel_id"), field |-> "afk_channel_id",
            val |-> ParseSnowflakeString(d.afk_channel_id)],
           [on |-> HasChange(old, d, "afk_timeout"), field |-> "afk_timeout",
            val |-> d.afk_timeout],
           [on |-> HasChange(old, d, "owner_id"), field |-> "owner_id",
            val |-> ParseSnowflakeString(d.owner_id)],
           [on |-> HasChange(old, d, "verification_level"), field |-> "verification_level",
            val |-> d.verification_level],
           [on |-> HasChange(old, d, "default_message_notifications"),
            field |-> "default_message_notifications",
            val |-> d.default_message_notifications],
           [on |-> HasChange(old, d, "explicit_content_filter"),
            field |-> "explicit_content_filter",
            val |-> d.explicit_content_filter],
           [on |-> HasChange(old, d, "name"), field |-> "name", val |-> d.name],
           [on |-> HasChange(old, d, "region"), field |-> "region", val |-> d.region],
           [on |-> HasChange(old, d, "owner_id") /\ hasOwner, field |-> "owner_id",
            val |-> getId(d.owner_id)],
           [on |-> ~HasChange(old, d, "owner_id") /\ hasOwner, field |-> "owner_id",
            val |-> server.owner_id] >>

\* edit: some setter was called.
UpdateEdit(sets) == \E i \in 1..Len(sets) : sets[i].on

\* The request the builder holds at Execute: for each field the value of
\* the last setter called for it.
UpdatePatch(sets) ==
    LET called == {i \in 1..Len(sets) : sets[i].on}
        last(k) == CHOOSE i \in called :
                      /\ sets[i].field = k
                      /\ \A j \in called : sets[j].field = k => j <= i
    IN  [k \in {sets[i].field : i \in called} |-> sets[last(k)].val]

UpdatePlan(old, d, server) ==
    LET sets == UpdateSets(old, d, server)
    IN  << Call("GetGuild", NoArgs) >>
        \o (IF UpdateEdit(sets)
                THEN << Call("UpdateGuild", UpdatePatch(sets)) >>
                ELSE <<>>)

UpdateSummary(c) ==
    IF c.op = "GetGuild" THEN "Error fetching server" ELSE "Failed to edit server"

resourceServerUpdate(cfg, failAt) ==
    LET d == Planned(cfg, state)
        plan == UpdatePlan(state, d, guild)
        n == IF Reachable(guild, getId(state.id)) THEN failAt ELSE 1
        issued == Issued(plan, n)
        ok == n = 0
        remote == ApplyCalls(issued, [guild |-> guild, channels |-> channels], 0)
    IN  /\ kind \in {"server", "managed"}
        /\ updates < MaxUpdates
        /\ cfg.server_id = state.server_id
        /\ failAt \in 0..Len(plan)
        /\ handler' = "resourceServerUpdate"
        /\ config' = cfg
        /\ prior' = state
        /\ priorGuild' = guild
        /\ calls' = issued
        /\ diags' = IF ok THEN <<>> ELSE Errorf(UpdateSummary(plan[n]), issued[n])
        /\ guild' = remote.guild
        /\ channels' = remote.channels
        /\ dret' = d
        \* The SDK stores d (the planned values) after an update, failed or not.
        /\ state' = d
        /\ fresh' = FALSE
        /\ updates' = updates + 1
        /\ UNCHANGED <<kind, drifts, validation>>

---------------------------------------------------------------------------
(* resourceServerDelete, resourceServerManagedDelete *)

DeletePlan == << Call("DeleteGuild", NoArgs) >>

resourceServerDelete(fail) ==
    LET n == IF fail \/ ~Reachable(guild, getId(state.id)) THEN 1 ELSE 0
        issued == Issued(DeletePlan, n)
        ok == n = 0
        remote == ApplyCalls(issued, [guild |-> guild, channels |-> channels], 0)
    IN  /\ kind = "server"
        /\ handler' = "resourceServerDelete"
        /\ prior' = state
        /\ priorGuild' = guild
        /\ calls' = issued
        /\ diags' = IF ok THEN <<>> ELSE Errorf("Failed to delete server", issued[n])
        /\ guild' = remote.guild
        /\ channels' = remote.channels
        /\ dret' = state
        \* The SDK removes the resource from the state when the delete succeeded.
        /\ state' = IF ok THEN EmptyState ELSE state
        /\ kind' = IF ok THEN "gone" ELSE kind
        /\ fresh' = FALSE
        /\ UNCHANGED <<config, drifts, updates, validation>>

ManagedDeletePlanDeletes == << Call("DeleteGuild", NoArgs) >>

\* noop
ManagedDeletePlan == <<>>

resourceServerManagedDelete ==
    /\ kind = "managed"
    /\ handler' = "resourceServerManagedDelete"
    /\ prior' = state
    /\ priorGuild' = guild
    /\ calls' = ManagedDeletePlan
    /\ diags' = <<>>
    /\ dret' = state
    /\ state' = EmptyState
    /\ kind' = "gone"
    /\ fresh' = FALSE
    /\ UNCHANGED <<guild, channels, config, drifts, updates, validation>>

---------------------------------------------------------------------------
(* The rest of the world: somebody changes the guild in Discord. *)

\* The changes somebody can make: clear the AFK channel, rename the guild,
\* upload a splash, hand the guild to another owner.
DriftPatches == 1..4

DriftPatch(i) ==
    CASE i = 1 -> [afk_channel_id |-> 0]
      [] i = 2 -> [name |-> "x"]
      [] i = 3 -> [splash |-> "data:splash"]
      [] i = 4 -> [owner_id |-> 2]

RemoteDrift(i) ==
    /\ kind \in {"server", "managed"}
    /\ guild.exists
    /\ drifts < MaxDrift
    /\ ApplyPatch(guild, DriftPatch(i)) # guild
    /\ guild' = ApplyPatch(guild, DriftPatch(i))
    /\ drifts' = drifts + 1
    /\ handler' = "drift"
    /\ calls' = <<>>
    /\ diags' = <<>>
    /\ prior' = state
    /\ priorGuild' = guild
    /\ dret' = state
    /\ fresh' = FALSE
    /\ UNCHANGED <<state, kind, channels, config, updates, validation>>

---------------------------------------------------------------------------
(* Specifications.  A behaviour follows one resource instance: Terraform  *)
(* calls its create handler once, while it has no state, then its read and *)
(* update handlers, and at last its delete handler.                        *)

Init ==
    /\ state = EmptyState
    /\ kind = "none"
    /\ guild \in {NoGuild, ForeignGuild}
    /\ channels = IF guild.exists THEN {1} ELSE {}
    /\ config = BaseConfig
    /\ handler = "none"
    /\ diags = <<>>
    /\ calls = <<>>
    /\ prior = EmptyState
    /\ priorGuild = guild
    /\ dret = EmptyState
    /\ fresh = FALSE
    /\ drifts = 0
    /\ updates = 0
    /\ validation = NoValidation

Create ==
    \E cfg \in ServerConfigs, nch \in 0..MaxChannels, failAt \in 0..(MaxChannels + 5) :
        resourceServerCreate(cfg, nch, failAt)

ManagedCreate == \E cfg \in ManagedConfigs : resourceServerManagedCreate(cfg)

Read == \E fail \in BOOLEAN : resourceServerRead(fail)

Update ==
    \E cfg \in UpdateConfigs, failAt \in 0..2 : resourceServerUpdate(cfg, failAt)

Delete == \E fail \in BOOLEAN : resourceServerDelete(fail)

ManagedDelete == resourceServerManagedDelete

Drift == \E i \in DriftPatches : RemoteDrift(i)

Next ==
    \/ Create
    \/ ManagedCreate
    \/ Read
    \/ Update
    \/ Delete
    \/ ManagedDelete
    \/ Drift

Spec == Init /\ [][Next]_vars

\* The life of a resource whose configuration is never changed.
NextNoUpdate ==
    \/ Create
    \/ ManagedCreate
    \/ Read
    \/ Delete
    \/ ManagedDelete
    \/ Drift

SpecNoUpdate == Init /\ [][NextNoUpdate]_vars

\* The validators alone, each applied to every probed integer.
Validate(key, v, errors) ==
    /\ validation' = [key |-> key, val |-> v, errors |-> errors]
    /\ UNCHANGED crudVars

ValidateVerification ==
    /\ validation = NoValidation
    /\ \E v \in ProbeInts :
          Validate("verification_level", v, ValidateVerificationLevel(v))

ValidateExplicit ==
    /\ validation = NoValidation
    /\ \E v \in ProbeInts :
          Validate("explicit_content_filter", v, ValidateExplicitContentFilter(v))

ValidateNotifications ==
    /\ validation = NoValidation
    /\ \E v \in ProbeInts :
          Validate("default_message_notifications", v,
                   ValidateDefaultMessageNotifications(v))

ValidateTimeout ==
    /\ validation = NoValidation
    /\ \E v \in ProbeInts : Validate("afk_timeout", v, ValidateAfkTimeout(v))

NextValidate ==
    \/ ValidateVerification
    \/ ValidateExplicit
    \/ ValidateNotifications
    \/ ValidateTimeout

SpecValidate == Init /\ [][NextValidate]_vars

---------------------------------------------------------------------------
(* Properties. *)

IsCrudHandler ==
    handler \in {"resourceServerCreate", "resourceServerRead",
                 "resourceServerUpdate", "resourceServerDelete"}

Succeeded == diags = <<>>

\* The configured attributes the round trip is about.
RoundTripAttrs ==
    {"name", "region", "verification_level", "explicit_content_filter",
     "default_message_notifications", "afk_timeout", "afk_channel_id", "owner_id"}

C2_FailureStopsHandler ==
    IsCrudHandler =>
        /\ \A i \in 1..Len(calls) :
              ~calls[i].ok =>
                  /\ i = Len(calls)
                  /\ calls[i].err # ""
                  /\ Len(diags) = 1
                  /\ diags[1].err = calls[i].err
                  /\ \A j \in 1..(i - 1) :
                        ~(calls[j].op = calls[i].op /\ calls[j].args = calls[i].args)
        /\ ~Succeeded => (calls # <<>> /\ ~calls[Len(calls)].ok)

C2_Witness ==
    /\ handler = "resourceServerCreate"
    /\ Len(calls) >= 4
    /\ calls[Len(calls)].op = "DeleteChannel"
    /\ ~calls[Len(calls)].ok
    /\ Len(diags) = 1

\* The field of the PATCH request that carries a configured attribute.
PatchField(k) ==
    CASE k \in {"icon_url", "icon_data_uri"} -> "icon"
      [] k \in {"splash_url", "splash_data_uri"} -> "splash"
      [] OTHER -> k

\* The attributes whose value differs between the prior state and the
\* configuration of the update that ran last.
ChangedAttrs == {k \in ConfigAttrs : prior[k] # config[k]}

PatchCalls == {i \in 1..Len(calls) : calls[i].op = "UpdateGuild"}

ImageAttrs == {"icon_url", "icon_data_uri", "splash_url", "splash_data_uri"}

\* C3: an update sets on its PATCH request only fields of attributes that
\* changed between the prior state and the configuration, and issues no
\* PATCH request when no attribute changed.  (Stated for the updates that
\* change no image attribute; the image fields are the subject of C9.)
C3_UpdateIsDiffDriven ==
    (handler = "resourceServerUpdate" /\ ChangedAttrs \cap ImageAttrs = {}) =>
        /\ \A i \in PatchCalls :
              DOMAIN calls[i].args \subseteq {PatchField(k) : k \in ChangedAttrs}
        /\ ChangedAttrs = {} => PatchCalls = {}

\* C4: after a successful read every mirrored attribute of the state equals
\* the remote guild's current value (an AFK channel the remote has cleared
\* reads back as no AFK channel).
C4_ReadMirrorsRemote ==
    (handler = "resourceServerRead" /\ Succeeded) =>
        /\ state.name = guild.name
        /\ state.region = guild.region
        /\ state.verification_level = guild.verification_level
        /\ state.explicit_content_filter = guild.explicit_content_filter
        /\ state.default_message_notifications = guild.default_message_notifications
        /\ state.afk_timeout = guild.afk_timeout
        /\ ParseSnowflakeString(state.afk_channel_id) = guild.afk_channel_id
        /\ state.icon_hash = guild.icon
        /\ state.splash_hash = guild.splash

\* C5: deleting a provider-created server issues exactly one call, the
\* guild delete; deleting a managed server issues no call, returns no error
\* and leaves the remote guild as it was.
C5_DeleteCalls ==
    /\ handler = "resourceServerDelete" =>
          (Len(calls) = 1 /\ calls[1].op = "DeleteGuild")
    /\ handler = "resourceServerManagedDelete" =>
          (calls = <<>> /\ Succeeded /\ guild = priorGuild)

C5_Witness ==
    /\ handler = "resourceServerManagedDelete"
    /\ prior.id = "7"
    /\ guild.exists
    /\ state.id = ""

\* The place of an endpoint in the order of a create.
CreateRank(op) ==
    CASE op = "CreateGuild" -> 1
      [] op = "GetChannels" -> 2
      [] op = "DeleteChannel" -> 3
      [] op = "UpdateGuild" -> 4
      [] OTHER -> 5

\* C6: a create issues its calls in the order create guild, fetch channels,
\* delete each fetched channel, edit; no edit is issued before every fetched
\* channel has been deleted, and after a successful create the guild has no
\* channel left.
C6_CreateCallOrder ==
    handler = "resourceServerCreate" =>
        /\ calls # <<>>
        /\ calls[1].op = "CreateGuild"
        /\ Len(calls) >= 2 => calls[2].op = "GetChannels"
        /\ \A i, j \in 1..Len(calls) :
              i < j => CreateRank(calls[i].op) <= CreateRank(calls[j].op)
        /\ \A j \in 3..Len(calls) : calls[j].op \in {"DeleteChannel", "UpdateGuild"}
        /\ \A j \in PatchCalls :
              \A c \in calls[2].args.channels :
                  \E i \in 1..(j - 1) :
                      /\ calls[i].op = "DeleteChannel"
                      /\ calls[i].args.channel = c
                      /\ calls[i].ok
        /\ Succeeded => channels = {}

C6_Witness ==
    /\ handler = "resourceServerCreate"
    /\ Succeeded
    /\ calls[2].args.channels = 1..MaxChannels
    /\ Len(calls) = MaxChannels + 5
    /\ channels = {}

\* C7: the afk_timeout validator returns no error exactly for 60, 300, 900,
\* 1800 and 3600, and the schema default passes it.
C7_AfkTimeoutValidator ==
    /\ validation.key = "afk_timeout" =>
          (validation.errors = <<>> <=> validation.val \in {60, 300, 900, 1800, 3600})
    /\ ValidateAfkTimeout(DefaultAfkTimeout) = <<>>

C7_Witness ==
    /\ validation.key = "afk_timeout"
    /\ validation.val = 120
    /\ validation.errors # <<>>

\* C8: verification_level accepts exactly 0..4, explicit_content_filter
\* exactly 0..2, default_message_notifications exactly 0 and 1, and each
\* schema default passes its validator.
C8_LevelValidators ==
    /\ validation.key = "verification_level" =>
          (validation.errors = <<>> <=> validation.val \in 0..4)
    /\ validation.key = "explicit_content_filter" =>
          (validation.errors = <<>> <=> validation.val \in 0..2)
    /\ validation.key = "default_message_notifications" =>
          (validation.errors = <<>> <=> validation.val \in {0, 1})
    /\ ValidateVerificationLevel(DefaultVerificationLevel) = <<>>
    /\ ValidateExplicitContentFilter(DefaultExplicitContentFilter) = <<>>
    /\ ValidateDefaultMessageNotifications(DefaultMessageNotifications) = <<>>

C8_Witness ==
    /\ validation.key = "verification_level"
    /\ validation.val = 0 - 1
    /\ validation.errors # <<>>

\* The image an update uploads for the configured splash.
NewSplash ==
    IF prior.splash_data_uri # config.splash_data_uri
        THEN config.splash_data_uri
        ELSE FromRemote(config.splash_url)

\* C9: when splash_url or splash_data_uri is the only attribute an update
\* changes, the PATCH request sets the splash to the new image and does not
\* set the icon, so that the guild's icon stays what it was.
C9_SplashOnlyUpdate ==
    (/\ handler = "resourceServerUpdate"
     /\ Succeeded
     /\ ChangedAttrs # {}
     /\ ChangedAttrs \subseteq {"splash_url", "splash_data_uri"})
        => /\ \E i \in PatchCalls :
                 /\ "splash" \in DOMAIN calls[i].args
                 /\ calls[i].args.splash = NewSplash
                 /\ "icon" \notin DOMAIN calls[i].args
           /\ guild.splash = ImageHash(NewSplash)
           /\ guild.icon = priorGuild.icon

\* C10: a create that returns an error has set no resource id and written
\* no attribute, so that nothing is stored, also when the guild already
\* exists remotely; an id is set only when every call succeeded.
C10_CreateSetsIdLast ==
    handler = "resourceServerCreate" =>
        /\ ~Succeeded =>
              /\ dret.id = ""
              /\ dret = Planned(config, EmptyState)
              /\ state = EmptyState
              /\ kind = "failed"
              /\ calls[1].ok => guild.exists
        /\ dret.id # "" => \A i \in 1..Len(calls) : calls[i].ok

C10_Witness ==
    /\ handler = "resourceServerCreate"
    /\ ~Succeeded
    /\ calls[Len(calls)].op = "UpdateGuild"
    /\ guild.exists
    /\ state.id = ""

===========================================================================
